---- MODULE Spec2Model ----
(***************************************************************************)
(* Model of the focus-timer TimerEngine (src/core/timer_engine.py): the    *)
(* Idle / Focus / Break / Paused state machine, its wall-clock timestamp   *)
(* arithmetic, the session records it hands to Storage.create_session and  *)
(* the Qt signals it emits.                                                *)
(*                                                                         *)
(* Every engine method is an operator from an engine value to an engine    *)
(* value, so that a method that calls another one (a completion tick that  *)
(* calls start_break, which calls _save_session) is the composition of the *)
(* operators.  An engine value is the record                               *)
(*   ctx                       self._context (TimerContext)                *)
(*   state_before_pause        self._state_before_pause ("NONE" for None)  *)
(*   qt_timer_active           self._qt_timer.isActive()                   *)
(*   current_session_start     self._current_session_start                 *)
(*   current_planned_seconds   self._current_planned_seconds               *)
(*   out                       what the call has emitted / persisted so far*)
(*   time                      int(time.time()) during the call            *)
(*   settings                  what storage.get_settings() returns         *)
(*   storage_fails             storage.create_session raises during the call*)
(*   raised                    an exception is unwinding the call          *)
(* One action is one run-to-completion call made by the Qt event loop.     *)
(*                                                                         *)
(* Beside the engine the model keeps the checkboxes of the two pages that  *)
(* write the settings (src/ui/timer_page.py, src/ui/settings_page.py) and  *)
(* the wake lock that the main window drives from phase_changed            *)
(* (src/ui/main_window.py, src/core/keep_awake.py).                        *)
(***************************************************************************)
EXTENDS Integers, Sequences, FiniteSets, TLC

VARIABLES
    ctx,                      \* TimerEngine._context
    state_before_pause,       \* TimerEngine._state_before_pause
    qt_timer_active,          \* TimerEngine._qt_timer is running
    current_session_start,    \* TimerEngine._current_session_start
    current_planned_seconds,  \* TimerEngine._current_planned_seconds
    settings,                 \* the settings table behind Storage.get_settings
    now,                      \* the wall clock, whole seconds: int(time.time())
    emitted,                  \* signals emitted and records persisted by the last call, in order
    last,                     \* the call just made, if the last step was one: its name,
                              \* its arguments and the engine it was issued on
    clock_backs,              \* how many times the wall clock has been set back so far
    settings_changed,         \* observer kept by SpecObserved only: a setting was saved
                              \* since the phase the engine is in began
    timer_page,               \* TimerPage: its two option checkboxes
    settings_page,            \* SettingsPage: its checkboxes, which are its _settings
    keep_awake,               \* KeepAwakeManager: _enabled, and _impl.is_active()
    attended                  \* the user is at the controls: commands may still be issued

\* what surrounds the engine: the two pages, the wake lock, the user
outside == <<timer_page, settings_page, keep_awake, attended>>

vars == <<ctx, state_before_pause, qt_timer_active, current_session_start,
          current_planned_seconds, settings, now, emitted, last, clock_backs,
          settings_changed, timer_page, settings_page, keep_awake, attended>>

----------------------------------------------------------------------------
(* Bounds of the model *)

\* the wall clock when the engine is constructed (a positive unix time)
ClockStart == 1000
\* the wall clock moves in steps of ClockStep seconds; any number of steps may pass
\* between two calls, so a tick may find the clock well past the end of its phase
ClockStep == 20
\* the wall clock is not advanced beyond ClockStart + ClockSpan
ClockSpan == 80
\* the wall clock is set back at most MaxClockBacks times
MaxClockBacks == 1
\* by at most MaxSetBack steps of ClockStep seconds at a time
MaxSetBack == 1
\* the engine left to run for ever is followed through pauses of up to MaxPaused seconds
\* a phase
MaxPaused == 20
\* group ids offered to start_focus are 1..MaxGroup (and None)
MaxGroup == 1
\* focus_minutes offered to start_focus are 1..MaxFocusMinutes
MaxFocusMinutes == 1
\* break_minutes offered to start_focus are 1..MaxBreakMinutes
MaxBreakMinutes == 1

----------------------------------------------------------------------------
(* Program constants and types *)

\* `focus_minutes * 60`, `break_minutes * 60`
SecondsPerMinute == 60

\* TimerContext.focus_minutes / break_minutes defaults
DefaultFocusMinutes == 25
DefaultBreakMinutes == 5

\* models.TimerState
TimerState == {"IDLE", "FOCUS", "BREAK", "PAUSED"}

\* models.SessionStatus
COMPLETED == "completed"
INTERRUPTED == "interrupted"

\* Optional[int] group id: <<>> is None, <<g>> is the id g
GroupIds == {<<>>} \cup {<<g>> : g \in 1..MaxGroup}

Max(a, b) == IF a >= b THEN a ELSE b
Min(a, b) == IF a <= b THEN a ELSE b

\* models.TimerContext()
TimerContext ==
    [state |-> "IDLE", remaining_seconds |-> 0, total_seconds |-> 0,
     current_group_id |-> <<>>,
     focus_minutes |-> DefaultFocusMinutes, break_minutes |-> DefaultBreakMinutes,
     session_start_ts |-> 0, pause_start_ts |-> 0, total_paused_seconds |-> 0]

\* models.AppSettings(), restricted to the fields the engine reads
AppSettings ==
    [auto_start_break |-> TRUE, auto_start_focus |-> FALSE, log_breaks |-> FALSE]

\* models.AppSettings().keep_screen_awake
DefaultKeepScreenAwake == TRUE

\* TimerPage._load_settings: the two option checkboxes show the stored values
TimerPageLoaded(stored) ==
    [auto_break_check |-> stored.auto_start_break,
     auto_focus_check |-> stored.auto_start_focus]

\* SettingsPage._load_settings: self._settings is read once and the checkboxes show it
\* (sound and notification checkboxes left out: nothing here reads them)
SettingsPageLoaded(stored) ==
    [auto_break_check |-> stored.auto_start_break,
     auto_focus_check |-> stored.auto_start_focus,
     keep_awake_check |-> DefaultKeepScreenAwake,
     log_breaks_check |-> stored.log_breaks]

\* KeepAwakeManager.__init__: enabled, and the platform implementation not active
KeepAwakeManager == [enabled |-> TRUE, active |-> FALSE]

----------------------------------------------------------------------------
(* The engine value a call works on *)

\* Self that holds the settings read once at construction instead of the store's
Self_cached_settings ==
    [ctx |-> ctx,
     state_before_pause |-> state_before_pause,
     qt_timer_active |-> qt_timer_active,
     current_session_start |-> current_session_start,
     current_planned_seconds |-> current_planned_seconds,
     out |-> <<>>,
     time |-> now,
     settings |-> AppSettings,
     storage_fails |-> FALSE,
     raised |-> FALSE,
     settings_changed |-> settings_changed]

\* the engine as a call finds it: nothing emitted yet, no exception raised, and a storage
\* whose create_session returns. Once `raised` is set an exception is unwinding the call:
\* no statement of the engine runs any more, so every step below leaves such a value alone.
Self ==
    [ctx |-> ctx,
     state_before_pause |-> state_before_pause,
     qt_timer_active |-> qt_timer_active,
     current_session_start |-> current_session_start,
     current_planned_seconds |-> current_planned_seconds,
     out |-> <<>>,
     time |-> now,
     settings |-> settings,
     storage_fails |-> FALSE,
     raised |-> FALSE,
     settings_changed |-> settings_changed]

\* TimerEngine.is_running / is_focus / is_break / is_paused / is_idle
is_running(s) == s.ctx.state \in {"FOCUS", "BREAK"}
is_focus(s) == s.ctx.state = "FOCUS"
is_break(s) == s.ctx.state = "BREAK"
is_paused(s) == s.ctx.state = "PAUSED"
is_idle(s) == s.ctx.state = "IDLE"

\* self.tick.emit(self._context): the slots run at once and see the context as it is now
emit_tick(s) ==
    IF s.raised THEN s
    ELSE [s EXCEPT !.out = Append(@, [sig |-> "tick", ctx |-> s.ctx])]

\* self.phase_changed.emit(old_state, new_state)
emit_phase_changed(s, old_state, new_state) ==
    IF s.raised THEN s
    ELSE [s EXCEPT !.out = Append(@, [sig |-> "phase_changed",
                                      old |-> old_state, new |-> new_state])]

\* self._qt_timer.start() / self._qt_timer.stop()
qt_timer_start(s) == IF s.raised THEN s ELSE [s EXCEPT !.qt_timer_active = TRUE]
qt_timer_stop(s) == IF s.raised THEN s ELSE [s EXCEPT !.qt_timer_active = FALSE]

\* `self._context.current_group_id or 0`
group_or_zero(g) == IF g = <<>> THEN 0 ELSE g[1]

\* reset_to_idle that leaves the pause bookkeeping of the ended phase behind
reset_to_idle_keeps_pauses(s) ==
    IF s.raised THEN s
    ELSE [s EXCEPT !.ctx.state = "IDLE",
                   !.ctx.remaining_seconds = 0,
                   !.ctx.total_seconds = 0,
                   !.ctx.session_start_ts = 0,
                   !.current_session_start = 0,
                   !.current_planned_seconds = 0]

\* TimerEngine._reset_to_idle
reset_to_idle(s) ==
    IF s.raised THEN s
    ELSE [s EXCEPT !.ctx.state = "IDLE",
                   !.ctx.remaining_seconds = 0,
                   !.ctx.total_seconds = 0,
                   !.ctx.session_start_ts = 0,
                   !.ctx.pause_start_ts = 0,
                   !.ctx.total_paused_seconds = 0,
                   !.state_before_pause = "NONE",
                   !.current_session_start = 0,
                   !.current_planned_seconds = 0]

\* raw_actual_seconds with the pauses counted as time spent (total_paused_seconds not
\* subtracted)
raw_actual_seconds_with_pauses(s) ==
    IF s.ctx.pause_start_ts > 0
    THEN s.ctx.pause_start_ts - s.current_session_start
    ELSE s.time - s.current_session_start

\* the actual_seconds of TimerEngine._save_session, before the clamp
raw_actual_seconds(s) ==
    IF s.ctx.pause_start_ts > 0
    THEN s.ctx.pause_start_ts - s.current_session_start - s.ctx.total_paused_seconds
    ELSE s.time - s.current_session_start - s.ctx.total_paused_seconds

\* clamp_actual without the lower bound: min(actual_seconds, planned) only
clamp_actual_upper_only(actual_seconds, planned) == Min(actual_seconds, planned)

\* `max(0, min(actual_seconds, self._current_planned_seconds))`
clamp_actual(actual_seconds, planned) == Max(0, Min(actual_seconds, planned))

\* session_of with the status chosen the wrong way round
session_of_status_swapped(s, completed, is_break_flag) ==
    [group_id |-> group_or_zero(s.ctx.current_group_id),
     start_ts |-> s.current_session_start,
     end_ts |-> s.time,
     planned_seconds |-> s.current_planned_seconds,
     actual_seconds |-> clamp_actual(raw_actual_seconds(s), s.current_planned_seconds),
     status |-> IF completed THEN INTERRUPTED ELSE COMPLETED,
     is_break |-> is_break_flag]

\* the Session built by TimerEngine._save_session
session_of(s, completed, is_break_flag) ==
    [group_id |-> group_or_zero(s.ctx.current_group_id),
     start_ts |-> s.current_session_start,
     end_ts |-> s.time,
     planned_seconds |-> s.current_planned_seconds,
     actual_seconds |-> clamp_actual(raw_actual_seconds(s), s.current_planned_seconds),
     status |-> IF completed THEN COMPLETED ELSE INTERRUPTED,
     is_break |-> is_break_flag]

\* save_session that emits session_completed before the record is handed to storage
save_session_emits_first(s, completed, is_break_flag) ==
    LET session == session_of(s, completed, is_break_flag)
    IN [s EXCEPT !.out = @ \o << [sig |-> "session_completed", session |-> session],
                                 [sig |-> "create_session", session |-> session] >>]

\* TimerEngine._save_session: storage.create_session, then session_completed.emit; when
\* create_session raises (Storage._get_connection rolls back and re-raises) nothing is
\* stored, the exception leaves _save_session and its callers, and no signal is emitted
save_session(s, completed, is_break_flag) ==
    LET session == session_of(s, completed, is_break_flag)
    IN IF s.raised THEN s
       ELSE IF s.storage_fails
       THEN [s EXCEPT !.raised = TRUE,
                      !.out = Append(@, [sig |-> "create_session_raised",
                                         session |-> session])]
       ELSE [s EXCEPT !.out = @ \o << [sig |-> "create_session", session |-> session],
                                      [sig |-> "session_completed", session |-> session] >>]

\* stop_and_save that saves an interrupted break whatever log_breaks says
stop_and_save_always_logs(s, interrupted) ==
    LET s1 == qt_timer_stop(s)
        was_focus == \/ s1.ctx.state = "FOCUS"
                     \/ (s1.ctx.state = "PAUSED" /\ s1.state_before_pause = "FOCUS")
        was_break == \/ s1.ctx.state = "BREAK"
                     \/ (s1.ctx.state = "PAUSED" /\ s1.state_before_pause = "BREAK")
        old_state == s1.ctx.state
        s2 == IF was_focus
              THEN save_session(s1, ~interrupted, FALSE)
              ELSE IF was_break
                   THEN save_session(s1, ~interrupted, TRUE)
                   ELSE s1
        s3 == reset_to_idle(s2)
    IN emit_tick(emit_phase_changed(s3, old_state, "IDLE"))

\* TimerEngine._stop_and_save
stop_and_save(s, interrupted) ==
    LET s1 == qt_timer_stop(s)
        was_focus == \/ s1.ctx.state = "FOCUS"
                     \/ (s1.ctx.state = "PAUSED" /\ s1.state_before_pause = "FOCUS")
        was_break == \/ s1.ctx.state = "BREAK"
                     \/ (s1.ctx.state = "PAUSED" /\ s1.state_before_pause = "BREAK")
        old_state == s1.ctx.state
        s2 == IF was_focus
              THEN save_session(s1, ~interrupted, FALSE)
              ELSE IF was_break /\ s1.settings.log_breaks
                   THEN save_session(s1, ~interrupted, TRUE)
                   ELSE s1
        s3 == reset_to_idle(s2)
    IN emit_tick(emit_phase_changed(s3, old_state, "IDLE"))

\* start_focus that replaces a running session without stopping and saving it first
start_focus_discards(s, focus_minutes, break_minutes, group_id) ==
    LET old_state == s.ctx.state
        s2 == [s EXCEPT !.ctx.state = "FOCUS",
                        !.ctx.focus_minutes = focus_minutes,
                        !.ctx.break_minutes = break_minutes,
                        !.ctx.current_group_id = group_id,
                        !.ctx.total_seconds = focus_minutes * SecondsPerMinute,
                        !.ctx.remaining_seconds = focus_minutes * SecondsPerMinute,
                        !.ctx.session_start_ts = s.time,
                        !.ctx.total_paused_seconds = 0,
                        !.current_session_start = s.time,
                        !.current_planned_seconds = focus_minutes * SecondsPerMinute]
        s3 == qt_timer_start(s2)
    IN emit_tick(emit_phase_changed(s3, old_state, "FOCUS"))

\* start_focus that takes the minutes for seconds: total_seconds = focus_minutes
start_focus_minutes_as_seconds(s, focus_minutes, break_minutes, group_id) ==
    LET s1 == IF ~is_idle(s) THEN stop_and_save(s, TRUE) ELSE s
        old_state == s1.ctx.state
        s2 == [s1 EXCEPT !.ctx.state = "FOCUS",
                         !.ctx.focus_minutes = focus_minutes,
                         !.ctx.break_minutes = break_minutes,
                         !.ctx.current_group_id = group_id,
                         !.ctx.total_seconds = focus_minutes,
                         !.ctx.remaining_seconds = focus_minutes,
                         !.ctx.session_start_ts = s1.time,
                         !.ctx.total_paused_seconds = 0,
                         !.current_session_start = s1.time,
                         !.current_planned_seconds = focus_minutes]
        s3 == qt_timer_start(s2)
    IN emit_tick(emit_phase_changed(s3, old_state, "FOCUS"))

\* TimerEngine.start_focus
start_focus(s, focus_minutes, break_minutes, group_id) ==
    LET s1 == IF ~is_idle(s) THEN stop_and_save(s, TRUE) ELSE s
        old_state == s1.ctx.state
        s2 == IF s1.raised THEN s1
              ELSE [s1 EXCEPT !.ctx.state = "FOCUS",
                              !.ctx.focus_minutes = focus_minutes,
                              !.ctx.break_minutes = break_minutes,
                              !.ctx.current_group_id = group_id,
                              !.ctx.total_seconds = focus_minutes * SecondsPerMinute,
                              !.ctx.remaining_seconds = focus_minutes * SecondsPerMinute,
                              !.ctx.session_start_ts = s1.time,
                              !.ctx.total_paused_seconds = 0,
                              !.current_session_start = s1.time,
                              !.current_planned_seconds = focus_minutes * SecondsPerMinute]
        s3 == qt_timer_start(s2)
    IN emit_tick(emit_phase_changed(s3, old_state, "FOCUS"))

\* start_break that starts the Break without the category of the focus before it
start_break_drops_group(s) ==
    LET old_state == s.ctx.state
        s1 == IF old_state = "FOCUS" THEN save_session(s, TRUE, FALSE) ELSE s
        s2 == IF s1.raised THEN s1
              ELSE [s1 EXCEPT !.ctx.state = "BREAK",
                              !.ctx.current_group_id = <<>>,
                              !.ctx.total_seconds = s1.ctx.break_minutes * SecondsPerMinute,
                              !.ctx.remaining_seconds = s1.ctx.break_minutes * SecondsPerMinute,
                              !.ctx.session_start_ts = s1.time,
                              !.ctx.total_paused_seconds = 0,
                              !.current_session_start = s1.time,
                              !.current_planned_seconds =
                                  s1.ctx.break_minutes * SecondsPerMinute]
        s3 == IF ~s2.qt_timer_active THEN qt_timer_start(s2) ELSE s2
    IN emit_tick(emit_phase_changed(s3, old_state, "BREAK"))

\* start_break that carries the paused time of the ended phase into the Break
start_break_keeps_paused(s) ==
    LET old_state == s.ctx.state
        s1 == IF old_state = "FOCUS" THEN save_session(s, TRUE, FALSE) ELSE s
        s2 == IF s1.raised THEN s1
              ELSE [s1 EXCEPT !.ctx.state = "BREAK",
                              !.ctx.total_seconds = s1.ctx.break_minutes * SecondsPerMinute,
                              !.ctx.remaining_seconds = s1.ctx.break_minutes * SecondsPerMinute,
                              !.ctx.session_start_ts = s1.time,
                              !.current_session_start = s1.time,
                              !.current_planned_seconds =
                                  s1.ctx.break_minutes * SecondsPerMinute]
        s3 == IF ~s2.qt_timer_active THEN qt_timer_start(s2) ELSE s2
    IN emit_tick(emit_phase_changed(s3, old_state, "BREAK"))

\* start_break that relies on the scheduler still running and never restarts it
start_break_no_restart(s) ==
    LET old_state == s.ctx.state
        s1 == IF old_state = "FOCUS" THEN save_session(s, TRUE, FALSE) ELSE s
        s2 == IF s1.raised THEN s1
              ELSE [s1 EXCEPT !.ctx.state = "BREAK",
                              !.ctx.total_seconds = s1.ctx.break_minutes * SecondsPerMinute,
                              !.ctx.remaining_seconds = s1.ctx.break_minutes * SecondsPerMinute,
                              !.ctx.session_start_ts = s1.time,
                              !.ctx.total_paused_seconds = 0,
                              !.current_session_start = s1.time,
                              !.current_planned_seconds =
                                  s1.ctx.break_minutes * SecondsPerMinute]
    IN emit_tick(emit_phase_changed(s2, old_state, "BREAK"))

\* start_break that goes on tracking the focus session: _current_session_start and
\* _current_planned_seconds keep the values of the Focus before the Break
start_break_keeps_tracking(s) ==
    LET old_state == s.ctx.state
        s1 == IF old_state = "FOCUS" THEN save_session(s, TRUE, FALSE) ELSE s
        s2 == IF s1.raised THEN s1
              ELSE [s1 EXCEPT !.ctx.state = "BREAK",
                              !.ctx.total_seconds = s1.ctx.break_minutes * SecondsPerMinute,
                              !.ctx.remaining_seconds = s1.ctx.break_minutes * SecondsPerMinute,
                              !.ctx.session_start_ts = s1.time,
                              !.ctx.total_paused_seconds = 0]
        s3 == IF ~s2.qt_timer_active THEN qt_timer_start(s2) ELSE s2
    IN emit_tick(emit_phase_changed(s3, old_state, "BREAK"))

\* TimerEngine.start_break
start_break(s) ==
    LET old_state == s.ctx.state
        s1 == IF old_state = "FOCUS" THEN save_session(s, TRUE, FALSE) ELSE s
        s2 == IF s1.raised THEN s1
              ELSE [s1 EXCEPT !.ctx.state = "BREAK",
                              !.ctx.total_seconds = s1.ctx.break_minutes * SecondsPerMinute,
                              !.ctx.remaining_seconds = s1.ctx.break_minutes * SecondsPerMinute,
                              !.ctx.session_start_ts = s1.time,
                              !.ctx.total_paused_seconds = 0,
                              !.current_session_start = s1.time,
                              !.current_planned_seconds =
                                  s1.ctx.break_minutes * SecondsPerMinute]
        s3 == IF ~s2.qt_timer_active THEN qt_timer_start(s2) ELSE s2
    IN emit_tick(emit_phase_changed(s3, old_state, "BREAK"))

\* pause without its guard `if not self.is_running: return`
pause_unguarded(s) ==
    LET old_state == s.ctx.state
        s1 == [s EXCEPT !.state_before_pause = old_state,
                        !.ctx.state = "PAUSED",
                        !.ctx.pause_start_ts = s.time]
        s2 == qt_timer_stop(s1)
    IN emit_tick(emit_phase_changed(s2, old_state, "PAUSED"))

\* TimerEngine.pause
pause(s) ==
    IF ~is_running(s) THEN s
    ELSE LET old_state == s.ctx.state
             s1 == [s EXCEPT !.state_before_pause = old_state,
                             !.ctx.state = "PAUSED",
                             !.ctx.pause_start_ts = s.time]
             s2 == qt_timer_stop(s1)
         IN emit_tick(emit_phase_changed(s2, old_state, "PAUSED"))

\* resume that forgets to add the pause to total_paused_seconds
resume_pause_not_counted(s) ==
    IF ~is_paused(s) \/ s.state_before_pause = "NONE" THEN s
    ELSE LET s1 == [s EXCEPT !.ctx.state = s.state_before_pause,
                             !.state_before_pause = "NONE",
                             !.ctx.pause_start_ts = 0]
             s2 == qt_timer_start(s1)
         IN emit_tick(emit_phase_changed(s2, "PAUSED", s2.ctx.state))

\* resume that always goes back to Focus, whatever phase the pause suspended
resume_always_focus(s) ==
    IF ~is_paused(s) \/ s.state_before_pause = "NONE" THEN s
    ELSE LET pause_duration == s.time - s.ctx.pause_start_ts
             s1 == [s EXCEPT !.ctx.total_paused_seconds = @ + pause_duration,
                             !.ctx.state = "FOCUS",
                             !.state_before_pause = "NONE",
                             !.ctx.pause_start_ts = 0]
             s2 == qt_timer_start(s1)
         IN emit_tick(emit_phase_changed(s2, "PAUSED", s2.ctx.state))

\* TimerEngine.resume
resume(s) ==
    IF ~is_paused(s) \/ s.state_before_pause = "NONE" THEN s
    ELSE LET pause_duration == s.time - s.ctx.pause_start_ts
             s1 == [s EXCEPT !.ctx.total_paused_seconds = @ + pause_duration,
                             !.ctx.state = s.state_before_pause,
                             !.state_before_pause = "NONE",
                             !.ctx.pause_start_ts = 0]
             s2 == qt_timer_start(s1)
         IN emit_tick(emit_phase_changed(s2, "PAUSED", s2.ctx.state))

\* TimerEngine.stop
stop(s) == IF is_idle(s) THEN s ELSE stop_and_save(s, TRUE)

\* skip_break that saves the break whatever log_breaks says
skip_break_always_saves(s) ==
    IF ~is_break(s) THEN s
    ELSE LET old_state == s.ctx.state
             s1 == qt_timer_stop(s)
             s2 == save_session(s1, FALSE, TRUE)
             s3 == reset_to_idle(s2)
         IN emit_tick(emit_phase_changed(s3, old_state, "IDLE"))

\* TimerEngine.skip_break
skip_break(s) ==
    IF ~is_break(s) THEN s
    ELSE LET old_state == s.ctx.state
             s1 == qt_timer_stop(s)
             s2 == IF s1.settings.log_breaks THEN save_session(s1, FALSE, TRUE) ELSE s1
             s3 == reset_to_idle(s2)
         IN emit_tick(emit_phase_changed(s3, old_state, "IDLE"))

\* control enters TimerEngine._on_phase_complete while the phase is s.ctx.state
enter_phase_complete(s) ==
    [s EXCEPT !.out = Append(@, [sig |-> "on_phase_complete", phase |-> s.ctx.state])]

\* on_phase_complete that restarts Focus after a Break without the session's category
on_phase_complete_drops_group(s) ==
    LET s1 == qt_timer_stop(enter_phase_complete(s))
    IN IF is_focus(s1)
       THEN LET s2 == save_session(s1, TRUE, FALSE)
            IN IF s2.settings.auto_start_break
               THEN start_break(s2)
               ELSE emit_phase_changed(reset_to_idle(s2), s2.ctx.state, "IDLE")
       ELSE IF is_break(s1)
       THEN LET s2 == IF s1.settings.log_breaks THEN save_session(s1, TRUE, TRUE) ELSE s1
            IN IF s2.settings.auto_start_focus
               THEN start_focus(s2, s2.ctx.focus_minutes, s2.ctx.break_minutes, <<>>)
               ELSE emit_phase_changed(reset_to_idle(s2), s2.ctx.state, "IDLE")
       ELSE s1

\* TimerEngine._on_phase_complete
on_phase_complete(s) ==
    LET s1 == qt_timer_stop(enter_phase_complete(s))
    IN IF is_focus(s1)
       THEN LET s2 == save_session(s1, TRUE, FALSE)
            IN IF s2.settings.auto_start_break
               THEN start_break(s2)
               ELSE emit_phase_changed(reset_to_idle(s2), s2.ctx.state, "IDLE")
       ELSE IF is_break(s1)
       THEN LET s2 == IF s1.settings.log_breaks THEN save_session(s1, TRUE, TRUE) ELSE s1
            IN IF s2.settings.auto_start_focus
               THEN start_focus(s2, s2.ctx.focus_minutes, s2.ctx.break_minutes,
                                s2.ctx.current_group_id)
               ELSE emit_phase_changed(reset_to_idle(s2), s2.ctx.state, "IDLE")
       ELSE s1

\* remaining_at that counts down from the value the last tick left, one second a tick
remaining_at_counts_down(s) == Max(0, s.ctx.remaining_seconds - 1)

\* remaining_at that forgets the paused time: elapsed = now - session_start_ts
remaining_at_ignores_pauses(s) ==
    LET elapsed == s.time - s.ctx.session_start_ts
    IN Max(0, s.ctx.total_seconds - elapsed)

\* the remaining time TimerEngine._on_tick computes
remaining_at(s) ==
    LET elapsed == s.time - s.ctx.session_start_ts - s.ctx.total_paused_seconds
    IN Max(0, s.ctx.total_seconds - elapsed)

\* on_tick that runs the completion handling twice when the time is up
on_tick_fires_twice(s) ==
    IF ~is_running(s) THEN s
    ELSE LET s1 == [s EXCEPT !.ctx.remaining_seconds = remaining_at(s)]
             s2 == emit_tick(s1)
         IN IF s2.ctx.remaining_seconds <= 0
            THEN on_phase_complete(on_phase_complete(s2))
            ELSE s2

\* on_tick that completes the phase only when the remaining time is below zero
on_tick_below_zero(s) ==
    IF ~is_running(s) THEN s
    ELSE LET s1 == [s EXCEPT !.ctx.remaining_seconds = remaining_at(s)]
             s2 == emit_tick(s1)
         IN IF s2.ctx.remaining_seconds < 0 THEN on_phase_complete(s2) ELSE s2

\* TimerEngine._on_tick
on_tick(s) ==
    IF ~is_running(s) THEN s
    ELSE LET s1 == [s EXCEPT !.ctx.remaining_seconds = remaining_at(s)]
             s2 == emit_tick(s1)
         IN IF s2.ctx.remaining_seconds <= 0 THEN on_phase_complete(s2) ELSE s2

\* cleanup that saves a running phase only and forgets a paused one
cleanup_only_running(s) ==
    LET s1 == IF is_running(s) THEN stop_and_save(s, TRUE) ELSE s
    IN qt_timer_stop(s1)

\* TimerEngine.cleanup
cleanup(s) ==
    LET s1 == IF is_running(s) \/ is_paused(s) THEN stop_and_save(s, TRUE) ELSE s
    IN qt_timer_stop(s1)

----------------------------------------------------------------------------
(* The state machine: one action per call the event loop makes *)

\* TimerEngine.__init__, with the clock and the settings table as the process finds them
Init ==
    /\ ctx = TimerContext
    /\ state_before_pause = "NONE"
    /\ qt_timer_active = FALSE
    /\ current_session_start = 0
    /\ current_planned_seconds = 0
    /\ settings = AppSettings
    /\ now = ClockStart
    /\ emitted = <<>>
    /\ last = [op |-> "none"]
    /\ clock_backs = 0
    /\ settings_changed = FALSE
    /\ timer_page = TimerPageLoaded(AppSettings)
    /\ settings_page = SettingsPageLoaded(AppSettings)
    /\ keep_awake = KeepAwakeManager
    /\ attended = TRUE

\* the call `op` that ended as the engine value s began a phase, or left the engine Idle
PhaseBegan(op, s) ==
    \/ s.ctx.state = "IDLE"
    \/ /\ op # "resume"
       /\ \E i \in 1..Len(s.out) :
             s.out[i].sig = "phase_changed" /\ s.out[i].new \in {"FOCUS", "BREAK"}

\* the engine's part of a call `op(args)` that takes it from the value pre to the value s
EngineCall(op, args, pre, s) ==
    /\ ctx' = s.ctx
    /\ state_before_pause' = s.state_before_pause
    /\ qt_timer_active' = s.qt_timer_active
    /\ current_session_start' = s.current_session_start
    /\ current_planned_seconds' = s.current_planned_seconds
    /\ emitted' = s.out
    /\ last' = [op |-> op, args |-> args, pre |-> pre]
    /\ settings_changed' = IF PhaseBegan(op, s) THEN FALSE ELSE settings_changed
    /\ UNCHANGED <<settings, now, clock_backs>>

\* a call `op(args)` that takes the engine from the value pre to the value s
CallOn(op, args, pre, s) ==
    /\ EngineCall(op, args, pre, s)
    /\ UNCHANGED outside

\* a call `op(args)` that takes the engine from Self to s
Call(op, args, s) == CallOn(op, args, Self, s)

\* a step between two calls: the engine is untouched, and the last call is over
Between ==
    /\ emitted' = <<>>
    /\ last' = [op |-> "none"]
    /\ UNCHANGED <<ctx, state_before_pause, qt_timer_active, current_session_start,
                   current_planned_seconds>>

\* the start button / tray action: TimerPage._on_start_clicked
StartFocus ==
    \E focus_minutes \in 1..MaxFocusMinutes, break_minutes \in 1..MaxBreakMinutes,
       group_id \in GroupIds :
        Call("start_focus", <<focus_minutes, break_minutes, group_id>>,
             start_focus(Self, focus_minutes, break_minutes, group_id))

\* the public command start_break()
StartBreak == Call("start_break", <<>>, start_break(Self))

\* the pause button while not paused: TimerPage._on_pause_clicked
Pause == Call("pause", <<>>, pause(Self))

\* the pause button while paused
Resume == Call("resume", <<>>, resume(Self))

\* the stop button: TimerPage._on_stop_clicked
Stop == Call("stop", <<>>, stop(Self))

\* the skip-break button: TimerPage._on_skip_break_clicked
SkipBreak == Call("skip_break", <<>>, skip_break(Self))

\* MainWindow._cleanup
Cleanup == Call("cleanup", <<>>, cleanup(Self))

\* QTimer.timeout of the running _qt_timer
Tick ==
    /\ qt_timer_active
    /\ Call("on_tick", <<>>, on_tick(Self))

\* Storage.save_settings changing one of the settings the engine reads
SaveSettings ==
    \E key \in DOMAIN settings, value \in BOOLEAN :
        /\ settings[key] # value
        /\ settings' = [settings EXCEPT ![key] = value]
        /\ Between
        /\ UNCHANGED <<now, clock_backs, settings_changed>>
        /\ UNCHANGED outside

\* wall-clock time passes between two calls
AdvanceClock ==
    /\ now + ClockStep <= ClockStart + ClockSpan
    /\ now' = now + ClockStep
    /\ Between
    /\ UNCHANGED <<settings, clock_backs, settings_changed>>
    /\ UNCHANGED outside

\* the wall clock is set back between two calls (time.time() is not monotonic)
ClockBack ==
    \E k \in 1..MaxSetBack :
        /\ clock_backs < MaxClockBacks
        /\ now - k * ClockStep >= ClockStart
        /\ now' = now - k * ClockStep
        /\ clock_backs' = clock_backs + 1
        /\ Between
        /\ UNCHANGED <<settings, settings_changed>>
        /\ UNCHANGED outside

Next ==
    \/ StartFocus
    \/ StartBreak
    \/ Pause
    \/ Resume
    \/ Stop
    \/ SkipBreak
    \/ Cleanup
    \/ Tick
    \/ SaveSettings
    \/ AdvanceClock

\* the engine under a wall clock that never goes back
Spec == Init /\ [][Next]_vars

NextSkew == Next \/ ClockBack

\* the engine under a wall clock that may also be set back
SpecSkew == Init /\ [][NextSkew]_vars

\* the engine as a call finds it while storage.create_session raises (database locked,
\* disk full, file gone): sqlite3 errors pass through Storage._get_connection
SelfDbError == [Self EXCEPT !.storage_fails = TRUE]

\* a call `op(args)` made while create_session raises, and that does try to save: the
\* exception leaves the engine as the value s and ends in the event loop's excepthook
RaisingCall(op, args, s) ==
    /\ s.raised
    /\ CallOn(op, args, SelfDbError, s)

StartFocusDbError ==
    \E focus_minutes \in 1..MaxFocusMinutes, break_minutes \in 1..MaxBreakMinutes,
       group_id \in GroupIds :
        RaisingCall("start_focus", <<focus_minutes, break_minutes, group_id>>,
                    start_focus(SelfDbError, focus_minutes, break_minutes, group_id))

StartBreakDbError == RaisingCall("start_break", <<>>, start_break(SelfDbError))

StopDbError == RaisingCall("stop", <<>>, stop(SelfDbError))

SkipBreakDbError == RaisingCall("skip_break", <<>>, skip_break(SelfDbError))

CleanupDbError == RaisingCall("cleanup", <<>>, cleanup(SelfDbError))

TickDbError ==
    /\ qt_timer_active
    /\ RaisingCall("on_tick", <<>>, on_tick(SelfDbError))

NextDbError ==
    \/ Next
    \/ StartFocusDbError
    \/ StartBreakDbError
    \/ StopDbError
    \/ SkipBreakDbError
    \/ CleanupDbError
    \/ TickDbError

\* the engine over a storage whose create_session may raise
SpecDbError == Init /\ [][NextDbError]_vars

\* SaveSettings, observed: it notes whether a phase was under way when the setting changed
SaveSettingsObserved ==
    \E key \in DOMAIN settings, value \in BOOLEAN :
        /\ settings[key] # value
        /\ settings' = [settings EXCEPT ![key] = value]
        /\ settings_changed' = (settings_changed \/ ctx.state # "IDLE")
        /\ Between
        /\ UNCHANGED <<now, clock_backs>>
        /\ UNCHANGED outside

NextObserved ==
    \/ StartFocus
    \/ StartBreak
    \/ Pause
    \/ Resume
    \/ Stop
    \/ SkipBreak
    \/ Cleanup
    \/ Tick
    \/ SaveSettingsObserved
    \/ AdvanceClock

\* Spec with the settings changes observed: the same engine, the same steps
SpecObserved == Init /\ [][NextObserved]_vars

----------------------------------------------------------------------------
(* The engine left to run for ever *)

\* a timestamp ClockStep seconds later, read against the clock: ClockStep older (0 is "unset")
Aged(ts) == IF ts > 0 THEN ts - ClockStep ELSE ts

\* the engine has time left to follow: none in a running phase that is out of time (the
\* scheduler fires every 300 ms, long before a further ClockStep passes), and in Paused
\* only while the pauses of the phase add up to less than MaxPaused
TimeToFollow ==
    \/ ctx.state = "IDLE"
    \/ is_running(Self) /\ remaining_at(Self) > 0
    \/ /\ is_paused(Self)
       /\ ctx.total_paused_seconds + (now - ctx.pause_start_ts) < MaxPaused

\* wall-clock time passes between two calls, as AdvanceClock, but with the clock kept as
\* the origin: the engine only ever subtracts its timestamps from int(time.time()), so
\* ClockStep seconds passing is every timestamp it holds becoming ClockStep older.  This
\* lets a model with a bounded clock follow an engine that runs for ever.
ClockPasses ==
    /\ TimeToFollow
    /\ ctx' = [ctx EXCEPT !.session_start_ts = Aged(@), !.pause_start_ts = Aged(@)]
    /\ current_session_start' = Aged(current_session_start)
    /\ emitted' = <<>>
    /\ last' = [op |-> "none"]
    /\ UNCHANGED <<state_before_pause, qt_timer_active, current_planned_seconds,
                   settings, now, clock_backs, settings_changed>>
    /\ UNCHANGED outside

\* the user leaves the controls: from here on no command is issued and no setting changed
UserLeaves ==
    /\ attended
    /\ attended' = FALSE
    /\ UNCHANGED <<ctx, state_before_pause, qt_timer_active, current_session_start,
                   current_planned_seconds, settings, now, emitted, last, clock_backs,
                   settings_changed, timer_page, settings_page, keep_awake>>

\* the commands the presentation layer issues (TimerPage buttons, tray menu,
\* MainWindow._cleanup) and its settings changes, while the user is at the controls
NextLive ==
    \/ attended /\ StartFocus
    \/ attended /\ Pause
    \/ attended /\ Resume
    \/ attended /\ Stop
    \/ attended /\ SkipBreak
    \/ attended /\ Cleanup
    \/ attended /\ SaveSettings
    \/ UserLeaves
    \/ Tick
    \/ ClockPasses

\* ENABLED <<Tick>>_vars as a state predicate: the scheduler is active and a tick now
\* would change something, which it does unless the last step was this very tick (a tick
\* repeated on the engine and at the clock of the one before it leaves everything as it is)
TickEnabled ==
    /\ qt_timer_active
    /\ last # [op |-> "on_tick", args |-> <<>>, pre |-> Self]

\* <<Tick>>_vars as seen on a step: Tick is the only action that records an on_tick call,
\* and it records a new one whenever it changes anything
TickStep == last' # last /\ last'.op = "on_tick"

\* WF_vars(Tick), written out with the two definitions above
TickFairness == []<>(~TickEnabled) \/ []<><<TickStep>>_vars

\* the event loop keeps delivering QTimer.timeout while _qt_timer is active, and time
\* keeps passing
SpecLive ==
    /\ Init
    /\ [][NextLive]_vars
    /\ TickFairness
    /\ WF_vars(ClockPasses)

----------------------------------------------------------------------------
(* The two pages that write the settings *)

\* the checkbox of each page that shows a stored setting
BoxOf ==
    [auto_start_break |-> "auto_break_check",
     auto_start_focus |-> "auto_focus_check",
     log_breaks |-> "log_breaks_check"]

\* KeepAwakeManager.enabled (setter): disabling releases a held wake lock
set_enabled(k, value) ==
    [enabled |-> value, active |-> IF ~value /\ k.active THEN FALSE ELSE k.active]

\* a checkbox of the timer page is toggled: TimerPage._on_options_changed reads the stored
\* settings, overwrites the two auto-start values with its checkboxes and saves them
TimerPageToggled ==
    \E box \in DOMAIN timer_page :
        LET boxes == [timer_page EXCEPT ![box] = ~@]
        IN /\ timer_page' = boxes
           /\ settings' = [settings EXCEPT !.auto_start_break = boxes.auto_break_check,
                                           !.auto_start_focus = boxes.auto_focus_check]
           /\ Between
           /\ UNCHANGED <<now, clock_backs, settings_changed, settings_page, keep_awake,
                          attended>>

\* a checkbox of the settings page is toggled: SettingsPage._on_setting_changed copies all
\* its checkboxes into the _settings it read when it was constructed, saves that object
\* and applies it to the wake-lock manager
SettingsPageToggled ==
    \E box \in DOMAIN settings_page :
        LET boxes == [settings_page EXCEPT ![box] = ~@]
        IN /\ settings_page' = boxes
           /\ settings' = [auto_start_break |-> boxes.auto_break_check,
                           auto_start_focus |-> boxes.auto_focus_check,
                           log_breaks |-> boxes.log_breaks_check]
           /\ keep_awake' = set_enabled(keep_awake, boxes.keep_awake_check)
           /\ Between
           /\ UNCHANGED <<now, clock_backs, settings_changed, timer_page, attended>>

NextPages ==
    \/ TimerPageToggled
    \/ SettingsPageToggled

\* the two pages over one settings table
SpecPages == Init /\ [][NextPages]_vars

----------------------------------------------------------------------------
(* The engine inside the main window: the wake lock follows phase_changed *)

\* KeepAwakeManager.start: takes the wake lock if keep-awake is enabled
keep_awake_start(k) == IF k.enabled THEN [k EXCEPT !.active = TRUE] ELSE k

\* KeepAwakeManager.stop / cleanup: releases it
keep_awake_stop(k) == [k EXCEPT !.active = FALSE]

\* MainWindow._on_phase_changed, its wake-lock part
on_phase_changed(k, old_state, new_state) ==
    IF new_state \in {"FOCUS", "BREAK"} THEN keep_awake_start(k)
    ELSE IF new_state = "IDLE" THEN keep_awake_stop(k)
    ELSE k

\* the wake lock after the slot has run for every phase_changed of `out`, in order
RECURSIVE after_signals(_, _)
after_signals(k, out) ==
    IF out = <<>> THEN k
    ELSE after_signals(IF Head(out).sig = "phase_changed"
                       THEN on_phase_changed(k, Head(out).old, Head(out).new)
                       ELSE k,
                       Tail(out))

\* a call `op(args)` made in the running application: the engine goes from Self to s and
\* the main window's slot has run for each phase_changed emitted on the way
WindowCall(op, args, s) ==
    /\ EngineCall(op, args, Self, s)
    /\ keep_awake' = after_signals(keep_awake, s.out)
    /\ UNCHANGED <<timer_page, settings_page, attended>>

StartFocusWindow ==
    \E focus_minutes \in 1..MaxFocusMinutes, break_minutes \in 1..MaxBreakMinutes,
       group_id \in GroupIds :
        WindowCall("start_focus", <<focus_minutes, break_minutes, group_id>>,
                   start_focus(Self, focus_minutes, break_minutes, group_id))

PauseWindow == WindowCall("pause", <<>>, pause(Self))

ResumeWindow == WindowCall("resume", <<>>, resume(Self))

StopWindow == WindowCall("stop", <<>>, stop(Self))

SkipBreakWindow == WindowCall("skip_break", <<>>, skip_break(Self))

TickWindow ==
    /\ qt_timer_active
    /\ WindowCall("on_tick", <<>>, on_tick(Self))

\* MainWindow._cleanup: timer_engine.cleanup(), then keep_awake.cleanup()
CleanupWindow ==
    /\ EngineCall("cleanup", <<>>, Self, cleanup(Self))
    /\ keep_awake' = keep_awake_stop(after_signals(keep_awake, cleanup(Self).out))
    /\ UNCHANGED <<timer_page, settings_page, attended>>

NextWindow ==
    \/ StartFocusWindow
    \/ PauseWindow
    \/ ResumeWindow
    \/ StopWindow
    \/ SkipBreakWindow
    \/ TickWindow
    \/ CleanupWindow
    \/ SettingsPageToggled
    \/ AdvanceClock

\* the engine driven by the main window, with the settings page beside it
SpecWindow == Init /\ [][NextWindow]_vars

----------------------------------------------------------------------------
(* What the last call did *)

\* the records the last call handed to storage.create_session, in order
Persisted == SelectSeq(emitted, LAMBDA e : e.sig = "create_session")

\* the session_completed signals of the last call, in order
Completions == SelectSeq(emitted, LAMBDA e : e.sig = "session_completed")

\* the last call was `op`, issued while the phase was one of `phases`
Called(op, phases) == last.op = op /\ last.pre.ctx.state \in phases

\* the last call was a scheduler tick that found the running phase `phase` with no time left
CompletionTick(phase) == Called("on_tick", {phase}) /\ remaining_at(last.pre) <= 0

\* un-paused seconds the phase of the engine value s has been running for at s.time
UnpausedElapsed(s) == s.time - s.ctx.session_start_ts - s.ctx.total_paused_seconds

----------------------------------------------------------------------------
(* C1 *)

\* C1: with auto_start_break on, the tick that finds a Focus phase out of time leaves the
\* engine in Break with total_seconds = break_minutes * 60, and persists exactly one record
\* and emits exactly one session_completed for that focus, Completed and not a break.
C1_FocusCompletionIntoBreak ==
    (CompletionTick("FOCUS") /\ last.pre.settings.auto_start_break) =>
        /\ ctx.state = "BREAK"
        /\ ctx.total_seconds = last.pre.ctx.break_minutes * SecondsPerMinute
        /\ Len(Persisted) = 1
        /\ Len(Completions) = 1
        /\ \A i \in 1..Len(Persisted) :
              /\ Persisted[i].session.status = COMPLETED
              /\ Persisted[i].session.is_break = FALSE

----------------------------------------------------------------------------
(* C2 *)

\* C2: the tick that finds a Break phase out of time persists exactly one break record,
\* Completed, when log_breaks is on, and none when it is off, whatever auto_start_focus is.
C2_BreakCompletionRecord ==
    CompletionTick("BREAK") =>
        IF last.pre.settings.log_breaks
        THEN /\ Len(Persisted) = 1
             /\ Persisted[1].session.is_break = TRUE
             /\ Persisted[1].session.status = COMPLETED
        ELSE Len(Persisted) = 0

----------------------------------------------------------------------------
(* C3 *)

\* C3: every record the engine persists has 0 <= actual_seconds <= planned_seconds, also
\* when the wall clock has been set back.
C3_ActualWithinPlanned ==
    \A i \in 1..Len(Persisted) :
        /\ 0 <= Persisted[i].session.actual_seconds
        /\ Persisted[i].session.actual_seconds <= Persisted[i].session.planned_seconds

\* a record saved by stop() after the clock was set back to before the phase started
C3_Witness ==
    /\ Called("stop", {"FOCUS", "BREAK", "PAUSED"})
    /\ Len(Persisted) = 1
    /\ raw_actual_seconds(last.pre) < 0

----------------------------------------------------------------------------
(* C4 *)

\* the tick signals of the last call, in order
Ticks == SelectSeq(emitted, LAMBDA e : e.sig = "tick")

\* C4: 0 <= remaining_seconds <= total_seconds in the context of every state the engine
\* rests in and in every context a tick publishes.
C4_RemainingWithinTotal ==
    /\ 0 <= ctx.remaining_seconds
    /\ ctx.remaining_seconds <= ctx.total_seconds
    /\ \A i \in 1..Len(Ticks) :
          /\ 0 <= Ticks[i].ctx.remaining_seconds
          /\ Ticks[i].ctx.remaining_seconds <= Ticks[i].ctx.total_seconds

----------------------------------------------------------------------------
(* C5 *)

\* the remaining_seconds the paused engine value s holds is the one that was due at the
\* instant of the pause (the last tick before pause() ran in the same clock second)
FreshAtPause(s) ==
    s.ctx.remaining_seconds =
        Max(0, s.ctx.total_seconds
               - (s.ctx.pause_start_ts - s.ctx.session_start_ts - s.ctx.total_paused_seconds))

\* C5: the first tick after resume() publishes the remaining_seconds the context held just
\* before pause(), however long the pause lasted and however many pauses the phase has had.
C5_PausedTimeNotElapsed ==
    [][ ( /\ Called("resume", {"PAUSED"})
          /\ FreshAtPause(last.pre)
          /\ last'.op = "on_tick" )
        => Head(emitted').ctx.remaining_seconds = last.pre.ctx.remaining_seconds ]_vars

\* resume() has just ended the second pause of a phase, a pause that lasted some time
C5_Witness ==
    /\ Called("resume", {"PAUSED"})
    /\ FreshAtPause(last.pre)
    /\ last.pre.ctx.total_paused_seconds > 0
    /\ now > last.pre.ctx.pause_start_ts
    /\ last.pre.ctx.remaining_seconds > 0
    /\ qt_timer_active

----------------------------------------------------------------------------
(* C6 *)

\* C6: stop() in Focus after e un-paused seconds, e less than planned, persists exactly one
\* record (Interrupted, not a break, planned focus_minutes * 60, actual e) and ends in Idle.
C6_StopMidFocus ==
    ( /\ Called("stop", {"FOCUS"})
      /\ 0 <= UnpausedElapsed(last.pre)
      /\ UnpausedElapsed(last.pre) < last.pre.ctx.focus_minutes * SecondsPerMinute )
    => /\ ctx.state = "IDLE"
       /\ Len(Persisted) = 1
       /\ Persisted[1].session.status = INTERRUPTED
       /\ Persisted[1].session.is_break = FALSE
       /\ Persisted[1].session.planned_seconds = last.pre.ctx.focus_minutes * SecondsPerMinute
       /\ Persisted[1].session.actual_seconds = UnpausedElapsed(last.pre)

\* stop() in a Focus phase that has run for a while and has been paused for a while
C6_Witness ==
    /\ Called("stop", {"FOCUS"})
    /\ last.pre.ctx.total_paused_seconds > 0
    /\ UnpausedElapsed(last.pre) > 0
    /\ UnpausedElapsed(last.pre) < last.pre.ctx.focus_minutes * SecondsPerMinute
    /\ Len(Persisted) = 1

----------------------------------------------------------------------------
(* C7 *)

\* C7: a record saved while the engine is Paused has actual_seconds =
\* pause_start_ts - session_start_ts - total_paused_seconds, and a record saved while it is
\* not paused has actual_seconds = now - session_start_ts - total_paused_seconds, each
\* clamped to [0, planned_seconds].
C7_ActualSecondsFormula ==
    \A i \in 1..Len(Persisted) :
        Persisted[i].session.actual_seconds =
            Max(0, Min(IF last.pre.ctx.state = "PAUSED"
                       THEN last.pre.ctx.pause_start_ts - last.pre.ctx.session_start_ts
                            - last.pre.ctx.total_paused_seconds
                       ELSE last.pre.time - last.pre.ctx.session_start_ts
                            - last.pre.ctx.total_paused_seconds,
                       Persisted[i].session.planned_seconds))

----------------------------------------------------------------------------
(* C8 *)

\* C8: with auto_start_break off, the tick that finds a Focus phase out of time leaves the
\* engine Idle and persists exactly one record, Completed and not a break.
C8_FocusCompletionIntoIdle ==
    (CompletionTick("FOCUS") /\ ~last.pre.settings.auto_start_break) =>
        /\ ctx.state = "IDLE"
        /\ Len(Persisted) = 1
        /\ Persisted[1].session.status = COMPLETED
        /\ Persisted[1].session.is_break = FALSE

\* a Focus phase has just completed with auto_start_break off
C8_Witness ==
    /\ CompletionTick("FOCUS")
    /\ ~last.pre.settings.auto_start_break
    /\ Len(Persisted) = 1

----------------------------------------------------------------------------
(* C9 *)

\* C9: skip_break() in Break ends in Idle; it persists nothing when log_breaks is off and
\* exactly one record, Interrupted and a break, when log_breaks is on.
C9_SkipBreak ==
    Called("skip_break", {"BREAK"}) =>
        /\ ctx.state = "IDLE"
        /\ IF last.pre.settings.log_breaks
           THEN /\ Len(Persisted) = 1
                /\ Persisted[1].session.status = INTERRUPTED
                /\ Persisted[1].session.is_break = TRUE
           ELSE Len(Persisted) = 0

\* skip_break() has just ended a Break that had run for a while, with log_breaks off
C9_Witness ==
    /\ Called("skip_break", {"BREAK"})
    /\ ~last.pre.settings.log_breaks
    /\ UnpausedElapsed(last.pre) > 0
    /\ ctx.state = "IDLE"

----------------------------------------------------------------------------
(* C10 *)

\* the last call left the engine as it found it and emitted and persisted nothing
NothingObservable ==
    /\ emitted = <<>>
    /\ ctx = last.pre.ctx
    /\ state_before_pause = last.pre.state_before_pause
    /\ qt_timer_active = last.pre.qt_timer_active
    /\ current_session_start = last.pre.current_session_start
    /\ current_planned_seconds = last.pre.current_planned_seconds

\* C10: pause() while Idle or Paused, resume() while not Paused, skip_break() while not in
\* Break (Paused from Break included) and stop() while Idle change nothing, emit no signal
\* and persist no record.
C10_GuardViolatingCommands ==
    ( \/ Called("pause", {"IDLE", "PAUSED"})
      \/ Called("resume", {"IDLE", "FOCUS", "BREAK"})
      \/ Called("skip_break", {"IDLE", "FOCUS", "PAUSED"})
      \/ Called("stop", {"IDLE"}) )
    => NothingObservable

\* pause() was called on an engine already Paused, a while after the first pause
C10_Witness ==
    /\ Called("pause", {"PAUSED"})
    /\ last.pre.time > last.pre.ctx.pause_start_ts
    /\ ctx.state = "PAUSED"

----------------------------------------------------------------------------
(* C11 *)

\* the phase_changed signals of the last call, in order
PhaseChanges == SelectSeq(emitted, LAMBDA e : e.sig = "phase_changed")

\* the positions in the signals of the last call at which signal `sig` was emitted
Positions(sig) == {i \in 1..Len(emitted) : emitted[i].sig = sig}

\* the last call was start_focus() over a Focus session, running or paused
StartFocusOverFocus ==
    \/ Called("start_focus", {"FOCUS"})
    \/ (Called("start_focus", {"PAUSED"}) /\ last.pre.state_before_pause = "FOCUS")

\* C11: start_focus() over a Focus session, running or paused, persists that session as
\* exactly one record, Interrupted and not a break and carrying the old session's start and
\* plan, its session_completed coming before the phase_changed into Focus; the new session
\* has total = remaining = focus_minutes * 60, starts now and has no paused time.
C11_StartFocusOverFocus ==
    StartFocusOverFocus =>
        /\ Len(Persisted) = 1
        /\ Persisted[1].session.status = INTERRUPTED
        /\ Persisted[1].session.is_break = FALSE
        /\ Persisted[1].session.start_ts = last.pre.current_session_start
        /\ Persisted[1].session.planned_seconds = last.pre.current_planned_seconds
        /\ Len(Completions) = 1
        /\ \A i \in Positions("session_completed"), j \in Positions("phase_changed") :
              emitted[j].new = "FOCUS" => i < j
        /\ \E j \in Positions("phase_changed") : emitted[j].new = "FOCUS"
        /\ ctx.state = "FOCUS"
        /\ ctx.total_seconds = last.args[1] * SecondsPerMinute
        /\ ctx.remaining_seconds = ctx.total_seconds
        /\ ctx.session_start_ts = last.pre.time
        /\ ctx.total_paused_seconds = 0
        /\ ctx.pause_start_ts = 0
        /\ current_session_start = last.pre.time
        /\ current_planned_seconds = ctx.total_seconds

\* start_focus() has just replaced a Focus session that was paused, had run for a while and
\* had been paused before
C11_Witness ==
    /\ Called("start_focus", {"PAUSED"})
    /\ last.pre.state_before_pause = "FOCUS"
    /\ last.pre.ctx.total_paused_seconds > 0
    /\ last.pre.ctx.session_start_ts < last.pre.time
    /\ Len(Persisted) = 1
    /\ ctx.state = "FOCUS"

----------------------------------------------------------------------------
(* C12 *)

\* the phase the engine value s is in, or the one its pause suspended
ActivePhase(s) == IF s.ctx.state = "PAUSED" THEN s.state_before_pause ELSE s.ctx.state

\* C12: stop() from any state but Idle ends in Idle; when the phase, or the phase a pause
\* suspended, was Focus it persists exactly one record, Interrupted and not a break; when it
\* was Break it persists exactly one record, Interrupted and a break, if log_breaks is on at
\* that moment, and nothing if it is off.
C12_StopPersists ==
    Called("stop", {"FOCUS", "BREAK", "PAUSED"}) =>
        /\ ctx.state = "IDLE"
        /\ ActivePhase(last.pre) \in {"FOCUS", "BREAK"}
        /\ IF ActivePhase(last.pre) = "FOCUS"
           THEN /\ Len(Persisted) = 1
                /\ Persisted[1].session.status = INTERRUPTED
                /\ Persisted[1].session.is_break = FALSE
           ELSE IF last.pre.settings.log_breaks
           THEN /\ Len(Persisted) = 1
                /\ Persisted[1].session.status = INTERRUPTED
                /\ Persisted[1].session.is_break = TRUE
           ELSE Len(Persisted) = 0

\* stop() has just ended a Break that was paused, with log_breaks off
C12_Witness ==
    /\ Called("stop", {"PAUSED"})
    /\ last.pre.state_before_pause = "BREAK"
    /\ ~last.pre.settings.log_breaks
    /\ Len(Persisted) = 0
    /\ ctx.state = "IDLE"

----------------------------------------------------------------------------
(* C13 *)

\* the runs of the completion handling within the last call, in order
PhaseCompletes == SelectSeq(emitted, LAMBDA e : e.sig = "on_phase_complete")

\* a scheduler tick now would find the running phase out of time
CompletionDue(s) == s.qt_timer_active /\ is_running(s) /\ remaining_at(s) <= 0

\* C13: the completion handling runs exactly once in a tick that finds a Focus or Break
\* phase with no time left, and in no other call; it runs for that phase, and it leaves the
\* engine out of that phase (Idle, or in a phase with a new start) and not due for completion,
\* so that neither the same tick nor a later one completes the same phase again.
C13_CompletionOnce ==
    /\ Len(PhaseCompletes) =
          IF CompletionTick("FOCUS") \/ CompletionTick("BREAK") THEN 1 ELSE 0
    /\ \A phase \in {"FOCUS", "BREAK"} :
          CompletionTick(phase) =>
              /\ PhaseCompletes[1].phase = phase
              /\ ~(ctx.state = phase /\ ctx.session_start_ts = last.pre.ctx.session_start_ts)
              /\ ctx.state = "IDLE" => ~qt_timer_active
              /\ ~CompletionDue(Self)

\* a Break has just completed into a new Focus phase, which a tick could act on at once
C13_Witness ==
    /\ CompletionTick("BREAK")
    /\ Len(PhaseCompletes) = 1
    /\ ctx.state = "FOCUS"
    /\ qt_timer_active

----------------------------------------------------------------------------
(* C14 *)

\* the last call made a transition of the engine's state machine: a command whose guard
\* held, or the tick that completed a phase
Transition ==
    \/ Called("start_focus", TimerState)
    \/ Called("start_break", TimerState)
    \/ Called("pause", {"FOCUS", "BREAK"})
    \/ Called("resume", {"PAUSED"})
    \/ Called("stop", {"FOCUS", "BREAK", "PAUSED"})
    \/ Called("skip_break", {"BREAK"})
    \/ CompletionTick("FOCUS")
    \/ CompletionTick("BREAK")

\* C14: every transition emits exactly one phase_changed, from the phase the call found to
\* the phase it left; so a Break completing with auto_start_focus on and a start_focus()
\* over a running or paused phase each emit one phase_changed into Focus and none into Idle.
C14_OnePhaseChangedPerTransition ==
    Transition =>
        /\ Len(PhaseChanges) = 1
        /\ PhaseChanges[1].old = last.pre.ctx.state
        /\ PhaseChanges[1].new = ctx.state

----------------------------------------------------------------------------
(* C15 *)

\* C15: in a call that emits both phase_changed and tick, a command or a scheduler tick
\* (the one that completes a phase included), no tick is emitted before the phase_changed:
\* every tick of the call has a phase_changed of the call ahead of it.
C15_TickAfterPhaseChanged ==
    Positions("phase_changed") # {} =>
        \A i \in Positions("tick") : \E j \in Positions("phase_changed") : j < i

----------------------------------------------------------------------------
(* C16 *)

\* the last call changed the context or emitted a signal
StateAffecting ==
    /\ last.op # "none"
    /\ (ctx # last.pre.ctx \/ emitted # <<>>)

\* C16: every state-affecting call emits a tick, and the last tick it emits carries the
\* phase the call leaves the engine in, so that at rest the most recent tick tells the
\* current phase; the ticks that complete a Focus or a Break into Idle included.
C16_LastTickCarriesPhase ==
    StateAffecting =>
        /\ Len(Ticks) > 0
        /\ Ticks[Len(Ticks)].ctx.state = ctx.state

----------------------------------------------------------------------------
(* C17 *)

\* C17: within every call, each record handed to create_session is followed at once by one
\* session_completed carrying that record, and each session_completed follows at once the
\* create_session of the record it carries: one signal per persisted record, after it is
\* persisted, and no signal without a record.
C17_CompletedOncePerRecord ==
    /\ \A i \in Positions("create_session") :
          /\ i + 1 \in Positions("session_completed")
          /\ emitted[i + 1].session = emitted[i].session
    /\ \A j \in Positions("session_completed") :
          /\ j - 1 \in Positions("create_session")
          /\ emitted[j - 1].session = emitted[j].session
    /\ Len(Completions) = Len(Persisted)

\* skip_break() has just persisted the record of a Break that had run for a while
C17_Witness ==
    /\ Called("skip_break", {"BREAK"})
    /\ UnpausedElapsed(last.pre) > 0
    /\ Len(Persisted) = 1
    /\ Len(Completions) = 1

----------------------------------------------------------------------------
(* C18 *)

\* C18: start_focus(f, b, c) on an Idle engine leaves it in Focus with total_seconds =
\* f * 60, remaining_seconds = total_seconds, no paused time, session_start_ts = now,
\* the minutes f and b and the category c in the context and the scheduler running, and
\* persists no record.
C18_StartFocusFromIdle ==
    Called("start_focus", {"IDLE"}) =>
        /\ ctx.state = "FOCUS"
        /\ ctx.total_seconds = last.args[1] * SecondsPerMinute
        /\ ctx.remaining_seconds = ctx.total_seconds
        /\ ctx.total_paused_seconds = 0
        /\ ctx.pause_start_ts = 0
        /\ ctx.session_start_ts = last.pre.time
        /\ ctx.focus_minutes = last.args[1]
        /\ ctx.break_minutes = last.args[2]
        /\ ctx.current_group_id = last.args[3]
        /\ qt_timer_active
        /\ Len(Persisted) = 0

\* start_focus() with a category has just started a session on an engine that had been
\* used before and was Idle again
C18_Witness ==
    /\ Called("start_focus", {"IDLE"})
    /\ last.args[3] # <<>>
    /\ last.pre.time > ClockStart
    /\ last.pre.ctx.focus_minutes # DefaultFocusMinutes
    /\ ctx.state = "FOCUS"
    /\ qt_timer_active

----------------------------------------------------------------------------
(* C19 *)

\* C19: the tick that finds a Break out of time starts, when auto_start_focus is on, a new
\* Focus phase with the focus_minutes, break_minutes and category the context held, with
\* total_seconds = focus_minutes * 60, remaining_seconds = total_seconds, no paused time,
\* starting now with the scheduler running; when auto_start_focus is off it leaves the
\* engine Idle.
C19_BreakCompletionRestart ==
    CompletionTick("BREAK") =>
        IF last.pre.settings.auto_start_focus
        THEN /\ ctx.state = "FOCUS"
             /\ ctx.focus_minutes = last.pre.ctx.focus_minutes
             /\ ctx.break_minutes = last.pre.ctx.break_minutes
             /\ ctx.current_group_id = last.pre.ctx.current_group_id
             /\ ctx.total_seconds = last.pre.ctx.focus_minutes * SecondsPerMinute
             /\ ctx.remaining_seconds = ctx.total_seconds
             /\ ctx.total_paused_seconds = 0
             /\ ctx.pause_start_ts = 0
             /\ ctx.session_start_ts = last.pre.time
             /\ qt_timer_active
        ELSE /\ ctx.state = "IDLE"
             /\ ~qt_timer_active

\* a Break of a session with a category, paused for a while on its way, has just completed
\* into a new Focus phase
C19_Witness ==
    /\ CompletionTick("BREAK")
    /\ last.pre.settings.auto_start_focus
    /\ last.pre.ctx.current_group_id # <<>>
    /\ last.pre.ctx.total_paused_seconds > 0
    /\ ctx.state = "FOCUS"

----------------------------------------------------------------------------
(* C20 *)

\* the call left total_seconds, session_start_ts and the category of the context as they were
PhaseDataKept ==
    /\ ctx.total_seconds = last.pre.ctx.total_seconds
    /\ ctx.session_start_ts = last.pre.ctx.session_start_ts
    /\ ctx.current_group_id = last.pre.ctx.current_group_id

\* C20: pause() in Focus or Break leaves the engine Paused, remembering that phase, with
\* pause_start_ts = now and the scheduler stopped; a Paused engine always remembers Focus or
\* Break; resume() in Paused restores the remembered phase, adds now - pause_start_ts to
\* total_paused_seconds, clears pause_start_ts and restarts the scheduler; both leave
\* total_seconds, session_start_ts and the category unchanged.
C20_PauseResume ==
    /\ Called("pause", {"FOCUS", "BREAK"}) =>
          /\ ctx.state = "PAUSED"
          /\ state_before_pause = last.pre.ctx.state
          /\ ctx.pause_start_ts = last.pre.time
          /\ ctx.total_paused_seconds = last.pre.ctx.total_paused_seconds
          /\ ~qt_timer_active
          /\ PhaseDataKept
    /\ ctx.state = "PAUSED" => state_before_pause \in {"FOCUS", "BREAK"}
    /\ Called("resume", {"PAUSED"}) =>
          /\ ctx.state = last.pre.state_before_pause
          /\ ctx.total_paused_seconds =
                last.pre.ctx.total_paused_seconds
                + (last.pre.time - last.pre.ctx.pause_start_ts)
          /\ ctx.pause_start_ts = 0
          /\ qt_timer_active
          /\ PhaseDataKept

\* resume() has just put a Break that was paused for a while back into Break
C20_Witness ==
    /\ Called("resume", {"PAUSED"})
    /\ last.pre.state_before_pause = "BREAK"
    /\ last.pre.time > last.pre.ctx.pause_start_ts
    /\ ctx.state = "BREAK"
    /\ qt_timer_active

----------------------------------------------------------------------------
(* C21 *)

\* C21: pause_start_ts is 0 in every state the engine rests in whose phase is not Paused.
C21_PauseStartOnlyWhilePaused ==
    ctx.state # "PAUSED" => ctx.pause_start_ts = 0

----------------------------------------------------------------------------
(* C22 *)

\* the last call was made on a Paused engine and left it Paused, or was the pause() itself
PausedThrough ==
    /\ last.op # "none"
    /\ ctx.state = "PAUSED"
    /\ last.pre.ctx.state \in {"PAUSED", "FOCUS", "BREAK"}

\* C22: in every state the engine rests in with phase Focus or Break, remaining_seconds =
\* max(0, total_seconds - (now - session_start_ts - total_paused_seconds)) for the wall
\* clock's current second now; and pause() and the calls made while Paused leave
\* remaining_seconds as it was.
C22_RemainingTracksClock ==
    /\ ctx.state \in {"FOCUS", "BREAK"} =>
          ctx.remaining_seconds =
              Max(0, ctx.total_seconds
                     - (now - ctx.session_start_ts - ctx.total_paused_seconds))
    /\ PausedThrough => ctx.remaining_seconds = last.pre.ctx.remaining_seconds

\* C22, amended: every scheduler tick in Focus or Break recomputes remaining_seconds as
\* max(0, total_seconds - (now - session_start_ts - total_paused_seconds)) for the second
\* now of the tick and publishes that value first, and it is the value the context keeps
\* when the tick does not complete the phase; pause() and the calls made while Paused leave
\* remaining_seconds as it was.
C22_RemainingRecomputedOnTick ==
    /\ Called("on_tick", {"FOCUS", "BREAK"}) =>
          /\ emitted # <<>>
          /\ Head(emitted).sig = "tick"
          /\ Head(emitted).ctx.remaining_seconds =
                Max(0, last.pre.ctx.total_seconds
                       - (last.pre.time - last.pre.ctx.session_start_ts
                          - last.pre.ctx.total_paused_seconds))
          /\ Head(emitted).ctx.remaining_seconds > 0 =>
                ctx = Head(emitted).ctx
    /\ PausedThrough => ctx.remaining_seconds = last.pre.ctx.remaining_seconds

\* a tick has just recomputed the remaining time of a phase that has run for a while, was
\* paused for a while and whose context held an older value
C22_Witness ==
    /\ Called("on_tick", {"FOCUS", "BREAK"})
    /\ last.pre.ctx.total_paused_seconds > 0
    /\ ctx.remaining_seconds > 0
    /\ ctx.remaining_seconds < last.pre.ctx.remaining_seconds

----------------------------------------------------------------------------
(* C23 *)

\* create_session raised during the last call
SaveRaised == Positions("create_session_raised") # {}

\* the context is the one _reset_to_idle leaves
IdleDefaults ==
    /\ ctx.state = "IDLE"
    /\ ctx.remaining_seconds = 0
    /\ ctx.total_seconds = 0
    /\ ctx.session_start_ts = 0
    /\ ctx.pause_start_ts = 0
    /\ ctx.total_paused_seconds = 0
    /\ state_before_pause = "NONE"

\* C23: when create_session raises while a call is saving a record, the call still makes
\* its transition: stop(), skip_break() and cleanup() leave the engine Idle with the context
\* reset, start_focus() leaves it in Focus, a completing tick leaves it in Break, Focus or
\* Idle; and the engine is never left in Focus or Break with the scheduler halted.
C23_FailedSaveStillResets ==
    SaveRaised =>
        /\ last.op \in {"stop", "skip_break", "cleanup"} => IdleDefaults
        /\ last.op = "start_focus" => ctx.state = "FOCUS"
        /\ last.op = "on_tick" => ctx.state # last.pre.ctx.state
        /\ ~(ctx.state \in {"FOCUS", "BREAK"} /\ ~qt_timer_active)

----------------------------------------------------------------------------
(* C24 *)

\* C24: cleanup() in Focus, Break or Paused persists what stop() would (one Interrupted
\* non-break record for a Focus, running or paused; one Interrupted break record for a Break
\* if log_breaks is on, none if it is off) and leaves the engine Idle; cleanup() in Idle
\* persists and emits nothing; after any cleanup() the scheduler is halted, so no tick is
\* processed.
C24_Cleanup ==
    /\ Called("cleanup", {"FOCUS", "BREAK", "PAUSED"}) =>
          /\ IdleDefaults
          /\ IF ActivePhase(last.pre) = "FOCUS"
             THEN /\ Len(Persisted) = 1
                  /\ Persisted[1].session.status = INTERRUPTED
                  /\ Persisted[1].session.is_break = FALSE
             ELSE IF last.pre.settings.log_breaks
             THEN /\ Len(Persisted) = 1
                  /\ Persisted[1].session.status = INTERRUPTED
                  /\ Persisted[1].session.is_break = TRUE
             ELSE Len(Persisted) = 0
    /\ Called("cleanup", {"IDLE"}) => NothingObservable
    /\ Called("cleanup", TimerState) =>
          /\ ~qt_timer_active
          /\ ~ENABLED Tick

\* cleanup() has just saved a Focus session that was paused
C24_Witness ==
    /\ Called("cleanup", {"PAUSED"})
    /\ last.pre.state_before_pause = "FOCUS"
    /\ last.pre.time > last.pre.ctx.pause_start_ts
    /\ Len(Persisted) = 1
    /\ ctx.state = "IDLE"

----------------------------------------------------------------------------
(* C25 *)

\* C25: whenever the phase is Idle, at construction and after stop, skip_break, cleanup and
\* a completion that does not continue, total_seconds, remaining_seconds, session_start_ts,
\* pause_start_ts and total_paused_seconds are 0 and no pre-pause phase is remembered.
C25_IdleMeansDefaults ==
    ctx.state = "IDLE" => IdleDefaults

\* a Focus phase that had been paused for a while has just completed into Idle
C25_Witness ==
    /\ CompletionTick("FOCUS")
    /\ last.pre.ctx.total_paused_seconds > 0
    /\ ctx.state = "IDLE"

----------------------------------------------------------------------------
(* C26 *)

\* C26: the outcome of a completion, a stop and a skip follows the settings the store
\* holds at that moment, whatever they were when the phase began: a Focus completes into
\* Break exactly if auto_start_break is on, a Break completes into Focus exactly if
\* auto_start_focus is on, and a completed, skipped or stopped Break is persisted exactly if
\* log_breaks is on.
C26_SettingsReadFresh ==
    /\ CompletionTick("FOCUS") =>
          ctx.state = IF settings.auto_start_break THEN "BREAK" ELSE "IDLE"
    /\ CompletionTick("BREAK") =>
          /\ ctx.state = IF settings.auto_start_focus THEN "FOCUS" ELSE "IDLE"
          /\ (Len(Persisted) > 0) = settings.log_breaks
    /\ Called("skip_break", {"BREAK"}) => (Len(Persisted) > 0) = settings.log_breaks
    /\ (Called("stop", {"BREAK", "PAUSED"}) /\ ActivePhase(last.pre) = "BREAK") =>
          (Len(Persisted) > 0) = settings.log_breaks

\* a Break has just completed into Focus and was persisted, the settings having been
\* changed while it ran
C26_Witness ==
    /\ CompletionTick("BREAK")
    /\ last.pre.settings_changed
    /\ settings.auto_start_focus
    /\ settings.log_breaks
    /\ ctx.state = "FOCUS"
    /\ Len(Persisted) > 0

----------------------------------------------------------------------------
(* C27 *)

\* C27: the category of the context is the one given to the last start_focus(): that call
\* sets it and no other call changes it, pause, resume and the start of the paired Break
\* included; and every record a call persists, for a Focus or for a Break, carries the
\* category the context held when the call was made (0 standing for no category).
C27_CategoryKept ==
    /\ Called("start_focus", TimerState) => ctx.current_group_id = last.args[3]
    /\ (last.op \notin {"none", "start_focus"}) =>
          ctx.current_group_id = last.pre.ctx.current_group_id
    /\ last.op # "none" =>
          \A i \in 1..Len(Persisted) :
              Persisted[i].session.group_id = group_or_zero(last.pre.ctx.current_group_id)

\* a Break entered with the category of the focus session before it, paused and resumed on
\* its way, has just completed and been persisted under that category
C27_Witness ==
    /\ CompletionTick("BREAK")
    /\ last.pre.ctx.current_group_id # <<>>
    /\ last.pre.ctx.total_paused_seconds > 0
    /\ Len(Persisted) > 0
    /\ Persisted[1].session.is_break
    /\ Persisted[1].session.group_id = last.pre.ctx.current_group_id[1]

----------------------------------------------------------------------------
(* C28 *)

\* the engine is in a Break that has just begun, with the break_minutes the call found
FreshBreak ==
    /\ ctx.state = "BREAK"
    /\ ctx.total_seconds = last.pre.ctx.break_minutes * SecondsPerMinute
    /\ ctx.remaining_seconds = ctx.total_seconds
    /\ ctx.session_start_ts = last.pre.time
    /\ ctx.total_paused_seconds = 0
    /\ qt_timer_active

\* C28: start_break() in Focus persists exactly one record, Completed and not a break, for
\* that focus, and enters Break with total_seconds = break_minutes * 60, remaining_seconds =
\* total_seconds, session_start_ts = now and no paused time; start_break() in any other
\* phase persists nothing and enters Break in the same way.
C28_StartBreak ==
    /\ Called("start_break", {"FOCUS"}) =>
          /\ Len(Persisted) = 1
          /\ Persisted[1].session.status = COMPLETED
          /\ Persisted[1].session.is_break = FALSE
          /\ Persisted[1].session.start_ts = last.pre.ctx.session_start_ts
          /\ FreshBreak
    /\ Called("start_break", {"IDLE", "BREAK", "PAUSED"}) =>
          /\ Len(Persisted) = 0
          /\ FreshBreak

\* start_break() has just ended a Focus that had run and had been paused for a while
C28_Witness ==
    /\ Called("start_break", {"FOCUS"})
    /\ last.pre.ctx.total_paused_seconds > 0
    /\ last.pre.time > last.pre.ctx.session_start_ts
    /\ Len(Persisted) = 1
    /\ ctx.state = "BREAK"

----------------------------------------------------------------------------
(* C29 *)

\* the engine value s as it would be had earlier ticks left r in remaining_seconds
WithRemaining(s, r) == [s EXCEPT !.ctx.remaining_seconds = r]

\* the seconds the engine value s has spent un-paused in its session, from its timestamps
\* alone: up to the pause mark if there is one, up to s.time if not
TimestampElapsed(s) ==
    (IF s.ctx.pause_start_ts > 0 THEN s.ctx.pause_start_ts ELSE s.time)
        - s.current_session_start - s.ctx.total_paused_seconds

\* C29: a tick that does not complete the phase changes nothing in the engine but
\* remaining_seconds, and what the engine publishes and persists next is computed from the
\* timestamps of the context and the clock alone, never from that field: a scheduler tick
\* at time t publishes max(0, total_seconds - (t - session_start_ts - total_paused_seconds)),
\* and every record saved at time t has actual_seconds = the un-paused seconds between the
\* session's start and t (or the pause mark), clamped to [0, planned_seconds].  So two runs
\* with the same command times and different earlier ticks agree on both.
C29_TickIndependent ==
    /\ (Called("on_tick", {"FOCUS", "BREAK"}) /\ Len(PhaseCompletes) = 0) =>
          /\ WithRemaining(Self, last.pre.ctx.remaining_seconds).ctx = last.pre.ctx
          /\ state_before_pause = last.pre.state_before_pause
          /\ qt_timer_active = last.pre.qt_timer_active
          /\ current_session_start = last.pre.current_session_start
          /\ current_planned_seconds = last.pre.current_planned_seconds
          /\ Len(Persisted) = 0
    /\ Called("on_tick", {"FOCUS", "BREAK"}) =>
          Head(emitted).ctx.remaining_seconds =
              Max(0, last.pre.ctx.total_seconds
                     - (last.pre.time - last.pre.ctx.session_start_ts
                        - last.pre.ctx.total_paused_seconds))
    /\ last.op # "none" =>
          \A i \in 1..Len(Persisted) :
              /\ Persisted[i].session.planned_seconds = last.pre.current_planned_seconds
              /\ Persisted[i].session.actual_seconds =
                    Max(0, Min(TimestampElapsed(last.pre),
                               last.pre.current_planned_seconds))

\* a tick has just published the remaining time of a phase that had been paused and whose
\* ticks had been missed for two clock steps or more
C29_Witness ==
    /\ Called("on_tick", {"FOCUS", "BREAK"})
    /\ last.pre.ctx.remaining_seconds = last.pre.ctx.total_seconds
    /\ last.pre.ctx.total_paused_seconds > 0
    /\ UnpausedElapsed(last.pre) >= 2 * ClockStep
    /\ Head(emitted).ctx.remaining_seconds
          = last.pre.ctx.total_seconds - UnpausedElapsed(last.pre)
    /\ Head(emitted).ctx.remaining_seconds > 0

----------------------------------------------------------------------------
(* C30 *)

\* the last call ended a Focus phase, running or paused: a command that replaces or stops
\* it, or the tick that found it out of time
FocusEnded ==
    /\ last.op # "none"
    /\ ActivePhase(last.pre) = "FOCUS"
    /\ \/ last.op \in {"start_focus", "start_break", "stop", "cleanup"}
       \/ CompletionTick("FOCUS")

\* the non-break records the last call persisted, in order
FocusRecords ==
    SelectSeq(emitted, LAMBDA e : e.sig = "create_session" /\ ~e.session.is_break)

\* C30: a call persists exactly one non-break record if it ends a Focus phase and none if
\* it does not, so that the non-break records persisted are as many as the Focus phases
\* that have ended: no focus recorded twice, none ended without a record.
C30_OneRecordPerFocus ==
    Len(FocusRecords) = IF FocusEnded THEN 1 ELSE 0

----------------------------------------------------------------------------
(* C31 *)

\* C31: between calls the recurring scheduler is active if and only if the phase is Focus
\* or Break; it is stopped in Idle and in Paused, after any sequence of commands and ticks.
C31_SchedulerIffRunning ==
    qt_timer_active <=> ctx.state \in {"FOCUS", "BREAK"}

\* the tick that found a Focus out of time has stopped the scheduler, and the Break it
\* started has the scheduler running again
C31_Witness ==
    /\ CompletionTick("FOCUS")
    /\ Len(PhaseCompletes) > 0
    /\ ctx.state = "BREAK"
    /\ qt_timer_active

----------------------------------------------------------------------------
(* C32 *)

\* C32: the remembered pre-pause phase is set exactly when the phase is Paused: while
\* Paused it is Focus or Break (so resume() succeeds), and in every other phase nothing
\* is remembered.
C32_RememberedIffPaused ==
    /\ ctx.state = "PAUSED" => state_before_pause \in {"FOCUS", "BREAK"}
    /\ ctx.state # "PAUSED" => state_before_pause = "NONE"

----------------------------------------------------------------------------
(* C33 *)

\* C33: every record with status Completed has actual_seconds = planned_seconds, and every
\* record of a phase ended by stop(), skip_break(), cleanup() or a new start_focus() has
\* status Interrupted: no command marks a partially elapsed phase as Completed.
C33_CompletedMeansFull ==
    /\ \A i \in 1..Len(Persisted) :
          Persisted[i].session.status = COMPLETED =>
              Persisted[i].session.actual_seconds = Persisted[i].session.planned_seconds
    /\ last.op \in {"stop", "skip_break", "cleanup", "start_focus"} =>
          \A i \in 1..Len(Persisted) : Persisted[i].session.status = INTERRUPTED

----------------------------------------------------------------------------
(* C34 *)

\* the last call began a Break: it emitted phase_changed(old, BREAK) from a phase other
\* than Paused (resume() goes back into a Break, it does not begin one)
BreakBegan ==
    \E i \in 1..Len(emitted) :
        /\ emitted[i].sig = "phase_changed"
        /\ emitted[i].new = "BREAK"
        /\ last.op # "resume"

\* C34: with a clock that never goes back, every persisted record has start_ts <= end_ts
\* and actual_seconds <= end_ts - start_ts, and its start_ts and planned_seconds are those
\* of the phase it describes: the start timestamp and planned duration of the phase that
\* was active (or suspended) when the call was made, a break record exactly when that
\* phase was a Break; and a Break that begins is tracked from its own start, for its own
\* duration, never from the start or for the duration of the focus before it.
C34_RecordTimes ==
    /\ ctx.state # "IDLE" =>
          /\ current_session_start = ctx.session_start_ts
          /\ current_planned_seconds = ctx.total_seconds
    /\ BreakBegan =>
          /\ current_session_start = last.pre.time
          /\ current_planned_seconds = ctx.break_minutes * SecondsPerMinute
    /\ last.op # "none" =>
          \A i \in 1..Len(Persisted) :
              /\ Persisted[i].session.start_ts <= Persisted[i].session.end_ts
              /\ Persisted[i].session.actual_seconds
                    <= Persisted[i].session.end_ts - Persisted[i].session.start_ts
              /\ Persisted[i].session.end_ts = last.pre.time
              /\ Persisted[i].session.start_ts = last.pre.ctx.session_start_ts
              /\ Persisted[i].session.planned_seconds = last.pre.ctx.total_seconds
              /\ Persisted[i].session.is_break = (ActivePhase(last.pre) = "BREAK")

\* skip_break() has just saved the record of a Break that began after a Focus had run for
\* a while, and that had been paused and resumed
C34_Witness ==
    /\ Called("skip_break", {"BREAK"})
    /\ Len(Persisted) = 1
    /\ Persisted[1].session.is_break
    /\ Persisted[1].session.start_ts > ClockStart
    /\ last.pre.ctx.total_paused_seconds > 0
    /\ Persisted[1].session.actual_seconds > 0
    /\ Persisted[1].session.actual_seconds
          < Persisted[1].session.end_ts - Persisted[1].session.start_ts

----------------------------------------------------------------------------
(* C35 *)

\* both auto-continue settings are on
AutoContinue == settings.auto_start_break /\ settings.auto_start_focus

\* C35: under fairness of the scheduler tick and a clock that keeps advancing, a Focus or
\* Break after which no command is issued is eventually completed: a tick finds it out of
\* time and the engine leaves it.  With auto_start_break and auto_start_focus both on and
\* no command issued, a running engine keeps running and Focus and Break each recur
\* infinitely often.
C35_EventuallyCompletes ==
    /\ (~attended /\ ctx.state = "FOCUS")
          ~> (CompletionTick("FOCUS") /\ Len(PhaseCompletes) = 1 /\ ctx.state # "FOCUS")
    /\ (~attended /\ ctx.state = "BREAK")
          ~> (CompletionTick("BREAK") /\ Len(PhaseCompletes) = 1 /\ ctx.state # "BREAK")
    /\ [](~attended /\ is_running(Self) /\ AutoContinue =>
             /\ [](is_running(Self))
             /\ []<>(ctx.state = "FOCUS")
             /\ []<>(ctx.state = "BREAK"))

\* with nobody at the controls, the tick that found a Break out of time has restarted Focus
C35_Witness ==
    /\ ~attended
    /\ AutoContinue
    /\ CompletionTick("BREAK")
    /\ ctx.state = "FOCUS"

----------------------------------------------------------------------------
(* C36 *)

\* C36: the two pages do not lose each other's settings: a change made on the settings
\* page leaves the stored value of every setting other than the one changed intact, so an
\* auto-start value the timer page stored survives it; and a change made on the timer page
\* leaves the stored log_breaks intact.
C36_NoLostUpdate ==
    [][/\ \A key \in DOMAIN settings :
             (/\ settings_page' # settings_page
              /\ settings_page'[BoxOf[key]] = settings_page[BoxOf[key]])
                 => settings'[key] = settings[key]
       /\ timer_page' # timer_page => settings'.log_breaks = settings.log_breaks]_vars

----------------------------------------------------------------------------
(* C37 *)

\* C37: the wake lock, driven by phase_changed, is held exactly when the timer is not
\* Idle: while keep-awake is enabled it is held in Focus, Break and Paused; it is released
\* whenever the engine is Idle (and never held while keep-awake is disabled), after any
\* sequence of commands, phase completions and toggles of the keep-awake setting.
C37_WakeLock ==
    /\ (keep_awake.enabled /\ ctx.state # "IDLE") => keep_awake.active
    /\ ctx.state = "IDLE" => ~keep_awake.active
    /\ ~keep_awake.enabled => ~keep_awake.active

====
